---- MODULE Spec2Model ----
(***************************************************************************)
(* Model of backend/main.py: the /api/upload pipeline                      *)
(*   audio -> Whisper STT -> language gate -> LanguageTool -> Piper TTS    *)
(* with the lazily filled Piper voice cache shared by all requests.        *)
(*                                                                         *)
(* Strings the code inspects character by character are sequences:        *)
(*   - language codes are sequences of one-character strings;              *)
(*   - texts are sequences of Unicode code points.                         *)
(***************************************************************************)
EXTENDS Integers, Sequences, FiniteSets, TLC

\* ------------------------------------------------------------------ bounds

\* Number of concurrent upload requests of one process lifetime.
NumRequests == 2

\* Longest raw language code enumerated for the language gate.
MaxCodeLen == 3

\* Longest text enumerated for correct_grammar run alone.
MaxTextLen == 2

\* Number of get_piper_voice calls made when it is run alone.
MaxVoiceCalls == 3

Requests == 1..NumRequests

\* ------------------------------------------------------------------ config

\* Python's None.
None == "None"

\* PIPER_MODELS: language key -> model path.
PIPER_MODELS ==
    [k \in {"en", "de", "tr"} |->
        CASE k = "en" -> "models/en_US-kristin-medium.onnx"
          [] k = "de" -> "models/de_DE-thorsten-medium.onnx"
          [] k = "tr" -> "models/tr_TR-fettah-medium.onnx"]

DEFAULT_LANG == "en"

\* ------------------------------------------------------- strings as sequences

\* str.lower() on one character (the letters the enumerated codes use).
LowerChar(c) ==
    CASE c = "E" -> "e"
      [] c = "N" -> "n"
      [] c = "D" -> "d"
      [] c = "T" -> "t"
      [] c = "R" -> "r"
      [] c = "B" -> "b"
      [] OTHER -> c

\* str.lower()
Lower(s) == [i \in 1..Len(s) |-> LowerChar(s[i])]

\* str.startswith(prefix)
StartsWith(s, prefix) ==
    /\ Len(s) >= Len(prefix)
    /\ SubSeq(s, 1, Len(prefix)) = prefix

\* Unicode white space, as str.strip() with no argument removes it.
IsSpace(cp) == cp \in {9, 10, 11, 12, 13, 28, 29, 30, 31, 32, 133, 160}

RECURSIVE LStrip(_)
LStrip(t) == IF t # <<>> /\ IsSpace(Head(t)) THEN LStrip(Tail(t)) ELSE t

RECURSIVE RStrip(_)
RStrip(t) ==
    IF t # <<>> /\ IsSpace(t[Len(t)]) THEN RStrip(SubSeq(t, 1, Len(t) - 1)) ELSE t

\* str.strip()
Strip(t) == RStrip(LStrip(t))

\* str.isascii(): every code point is below 128 (true of the empty string).
IsAscii(t) == \A i \in 1..Len(t) : t[i] < 128

\* ------------------------------------------------------------ language gate

detect_lang_for_tts_NoLower(detected) ==
    IF detected = <<>> THEN DEFAULT_LANG
    ELSE IF StartsWith(detected, <<"e", "n">>) THEN "en"
    ELSE IF StartsWith(detected, <<"d", "e">>) THEN "de"
    ELSE IF StartsWith(detected, <<"t", "r">>) THEN "tr"
    ELSE None

detect_lang_for_tts_DefaultFallback(detected) ==
    IF detected = <<>> THEN DEFAULT_LANG
    ELSE LET d == Lower(detected) IN
         IF StartsWith(d, <<"e", "n">>) THEN "en"
         ELSE IF StartsWith(d, <<"d", "e">>) THEN "de"
         ELSE IF StartsWith(d, <<"t", "r">>) THEN "tr"
         ELSE DEFAULT_LANG

detect_lang_for_tts_EmptyAbsent(detected) ==
    LET d == Lower(detected) IN
    IF StartsWith(d, <<"e", "n">>) /\ Len(d) > 2 THEN "en"
    ELSE IF StartsWith(d, <<"d", "e">>) THEN "de"
    ELSE IF StartsWith(d, <<"t", "r">>) THEN "tr"
    ELSE None

\* detect_lang_for_tts(detected): "not detected" is true of the empty string.
detect_lang_for_tts(detected) ==
    IF detected = <<>> THEN DEFAULT_LANG
    ELSE LET d == Lower(detected) IN
         IF StartsWith(d, <<"e", "n">>) THEN "en"
         ELSE IF StartsWith(d, <<"d", "e">>) THEN "de"
         ELSE IF StartsWith(d, <<"t", "r">>) THEN "tr"
         ELSE None

\* ------------------------------------------------------------- input sets

\* Characters of the enumerated raw language codes.
Alphabet == {"e", "n", "d", "t", "r", "E", "N", "D", "T", "R", "p", "u", "-"}

\* "EN-us", "pt-BR", "deu", "pt", "tr", "": codes named by the documentation.
NamedCodes ==
    { <<"E", "N", "-", "u", "s">>, <<"p", "t", "-", "B", "R">>,
      <<"d", "e", "u">>, <<"p", "t">>, <<"t", "r">>, <<>> }

\* Every code of at most MaxCodeLen characters, and the named ones.
Codes == UNION {[1..n -> Alphabet] : n \in 0..MaxCodeLen} \cup NamedCodes

\* Results of whisper_model.transcribe: dicts with "text" and "language",
\* either of which may be missing.  Texts are code points:
\*   <<32,105,10>> = " i\n"   <<197,32>> = "A-ring "
WhisperResults ==
    { [text |-> <<32, 105, 10>>, language |-> <<"E", "N", "-", "u", "s">>],
      [text |-> <<197, 32>>,     language |-> <<"d", "e", "u">>],
      [text |-> <<197, 32>>,     language |-> <<"t", "r">>],
      [text |-> <<32, 105, 10>>, language |-> <<"p", "t", "-", "B", "R">>],
      [text |-> <<32, 105, 10>>, language |-> <<>>],
      [text |-> <<32, 105, 10>>],
      [language |-> <<"p", "t">>] }

\* Results of language_tool_python.utils.correct(text, matches):
\*   "I"   "I\nam" (ASCII with a line feed)   "U-umlaut"
CorrectedTexts == { <<73>>, <<73, 10, 97, 109>>, <<220>> }

\* str(e) of the exception a stage raises.
FaultMessage(stage) ==
    CASE stage = "audio.read"      -> "upload read failed"
      [] stage = "stt_with_whisper" -> "transcription failed"
      [] stage = "correct_grammar"  -> "LanguageTool error"
      [] stage = "PiperVoice.load"  -> "model file not found"
      [] stage = "synthesize_wav"   -> "synthesis failed"

\* ------------------------------------------------------------------- state

VARIABLES
    pc,                 \* position of each request's upload_audio coroutine
    loop,               \* the request running on the event-loop thread: {} or {r}
    original_text,      \* locals of upload_audio, per request
    detected_lang_raw,
    tts_lang,
    corrected_text,
    voice,              \* local of tts_with_piper: the handle in use
    response,           \* what upload_audio returned
    calls,              \* per request: functions it has called, in order
    correct_args,       \* per request: arguments of its correct_grammar call
    tts_args,           \* per request: arguments of its tts_with_piper call
    fault,              \* per request: stage that raised, or ""
    piper_voices,       \* the module-level voice cache
    loads,              \* per key: number of PiperVoice.load calls
    constructed,        \* every PiperVoice instance ever constructed
    cached_at_start,    \* per request: the keys cached when its coroutine started
    gate_in,            \* language gate alone: its argument
    gate_out,           \* language gate alone: its result
    corr_in,            \* correct_grammar alone: its arguments (text, lang_key)
    corr_pc,            \* correct_grammar alone: "call", "check", "done", "raised"
    corr_engine,        \* correct_grammar alone: the engine it invoked, or None
    corr_out,           \* correct_grammar alone: its result
    vc_key,             \* get_piper_voice alone: its argument
    vc_pc,              \* get_piper_voice alone: "idle", "load", "done", "raised"
    vc_out,             \* get_piper_voice alone: its result
    vc_calls            \* get_piper_voice alone: number of calls made

vars ==
    << pc, loop, original_text, detected_lang_raw, tts_lang, corrected_text,
       voice, response, calls, correct_args, tts_args, fault, piper_voices,
       loads, constructed, cached_at_start, gate_in, gate_out,
       corr_in, corr_pc, corr_engine, corr_out,
       vc_key, vc_pc, vc_out, vc_calls >>

\* The variables of the functions run alone.
gate_vars == << gate_in, gate_out >>
corr_vars == << corr_in, corr_pc, corr_engine, corr_out >>
vc_vars == << vc_key, vc_pc, vc_out, vc_calls >>
unit_vars == << gate_vars, corr_vars, vc_vars >>

\* The per-request variables of the pipeline.
request_vars ==
    << pc, loop, original_text, detected_lang_raw, tts_lang, corrected_text,
       voice, response, calls, correct_args, tts_args, fault, cached_at_start >>

pipeline_vars ==
    << pc, loop, original_text, detected_lang_raw, tts_lang, corrected_text,
       voice, response, calls, correct_args, tts_args, fault, piper_voices,
       loads, constructed, cached_at_start >>

\* The event loop runs no coroutine.
Idle == {}
NoVoice == [key |-> None, serial |-> 0]
NoArgs == [text |-> <<>>, lang_key |-> None]
NoResponse == [status_code |-> 0, media_type |-> "", content |-> <<>>, headers |-> <<>>]

Terminal == {"ShortCircuitText", "Synthesized", "Failed"}

\* Positions inside a blocking engine call made on the event-loop thread.
BlockingCalls == {"Transcribing", "Correcting", "Loading", "Rendering"}

\* dict.get(key, default)
DictGet(d, key, default) == IF key \in DOMAIN d THEN d[key] ELSE default

\* ------------------------------------------------------------ voice cache

VoiceKey_NoSubstitute(lang_key) == lang_key

\* get_piper_voice, lines 127-128: an unconfigured key becomes the default.
VoiceKey(lang_key) ==
    IF lang_key \notin DOMAIN PIPER_MODELS THEN DEFAULT_LANG ELSE lang_key

CacheHit_Never(k) == FALSE

\* get_piper_voice, line 130: lang_key in piper_voices
CacheHit(k) == k \in DOMAIN piper_voices

CacheStore_Evict(k, h) == [x \in {k} |-> h]

\* piper_voices[lang_key] = voice
CacheStore(k, h) ==
    [x \in DOMAIN piper_voices \cup {k} |-> IF x = k THEN h ELSE piper_voices[x]]

CacheAfterFailedLoad_Negative(k) == CacheStore(k, NoVoice)

\* PiperVoice.load raised at line 135: line 136 is not reached.
CacheAfterFailedLoad(k) == piper_voices

\* A new PiperVoice object: distinct from every one constructed before.
NewVoice(k) == [key |-> k, serial |-> Cardinality(constructed) + 1]

\* ---------------------------------------------------------------- responses

\* tts_with_piper's result: a WAV of fixed format rendered by a voice from a text.
WavBytes(text, v) ==
    [nchannels |-> 1, sampwidth |-> 2, framerate |-> 22050, voice |-> v, text |-> text]

\* JSONResponse(status_code=200, content={...}), lines 193-201
TextOnlyResponse(text, lang_raw) ==
    [status_code |-> 200,
     media_type  |-> "application/json",
     content     |-> [original_text     |-> text,
                      detected_lang_raw |-> lang_raw,
                      normalized_lang   |-> None,
                      tts_available     |-> FALSE],
     headers     |-> <<>>]

Headers_Always(lang, corrected) ==
    ("X-Detected-Lang" :> lang) @@ ("X-Corrected-Text" :> corrected)

\* lines 210-216
Headers(lang, corrected) ==
    IF IsAscii(corrected)
    THEN ("X-Detected-Lang" :> lang) @@ ("X-Corrected-Text" :> corrected)
    ELSE ("X-Detected-Lang" :> lang)

\* Response(content=corrected_wav, media_type="audio/wav", headers=headers)
AudioResponse(wav, lang, corrected) ==
    [status_code |-> 200,
     media_type  |-> "audio/wav",
     content     |-> wav,
     headers     |-> Headers(lang, corrected)]

ErrorResponse_Ok(message) ==
    [status_code |-> 200,
     media_type  |-> "application/json",
     content     |-> [error |-> message],
     headers     |-> <<>>]

\* JSONResponse(status_code=500, content={"error": str(e)}), lines 226-229
ErrorResponse(message) ==
    [status_code |-> 500,
     media_type  |-> "application/json",
     content     |-> [error |-> message],
     headers     |-> <<>>]

\* -------------------------------------------------------------------- Init

PipelineInit ==
    /\ pc = [r \in Requests |-> "Received"]
    /\ loop = Idle
    /\ original_text = [r \in Requests |-> <<>>]
    /\ detected_lang_raw = [r \in Requests |-> <<>>]
    /\ tts_lang = [r \in Requests |-> None]
    /\ corrected_text = [r \in Requests |-> <<>>]
    /\ voice = [r \in Requests |-> NoVoice]
    /\ response = [r \in Requests |-> NoResponse]
    /\ calls = [r \in Requests |-> <<>>]
    /\ correct_args = [r \in Requests |-> NoArgs]
    /\ tts_args = [r \in Requests |-> NoArgs]
    /\ fault = [r \in Requests |-> ""]
    /\ piper_voices = <<>>
    /\ loads = [k \in DOMAIN PIPER_MODELS |-> 0]
    /\ constructed = {}
    /\ cached_at_start = [r \in Requests |-> {}]

\* No function is run alone.
GateIdle ==
    /\ gate_in = <<>>
    /\ gate_out = "unset"

CorrIdle ==
    /\ corr_in = NoArgs
    /\ corr_pc = "call"
    /\ corr_engine = None
    /\ corr_out = <<>>

VcIdle ==
    /\ vc_key = None
    /\ vc_pc = "idle"
    /\ vc_out = NoVoice
    /\ vc_calls = 0

Init ==
    /\ PipelineInit
    /\ GateIdle
    /\ CorrIdle
    /\ VcIdle

\* ----------------------------------------------------------- upload_audio

\* A return statement ends the coroutine: its frame, and the locals in it,
\* are gone, and the event loop is free again.
Return(r, state, resp) ==
    /\ pc' = [pc EXCEPT ![r] = state]
    /\ response' = [response EXCEPT ![r] = resp]
    /\ loop' = Idle
    /\ original_text' = [original_text EXCEPT ![r] = <<>>]
    /\ detected_lang_raw' = [detected_lang_raw EXCEPT ![r] = <<>>]
    /\ tts_lang' = [tts_lang EXCEPT ![r] = None]
    /\ corrected_text' = [corrected_text EXCEPT ![r] = <<>>]
    /\ voice' = [voice EXCEPT ![r] = NoVoice]

\* except Exception as e (lines 224-229): the 500 response is returned.
Raise(r, stage) ==
    /\ fault' = [fault EXCEPT ![r] = stage]
    /\ Return(r, "Failed", ErrorResponse(FaultMessage(stage)))

\* Lines 177-182: the coroutine starts when the loop is free, and suspends
\* at "await audio.read()".
Begin(r) ==
    /\ pc[r] = "Received"
    /\ loop = Idle
    /\ pc' = [pc EXCEPT ![r] = "Reading"]
    /\ calls' = [calls EXCEPT ![r] = Append(@, "audio.read")]
    /\ cached_at_start' = [cached_at_start EXCEPT ![r] = DOMAIN piper_voices]
    /\ UNCHANGED << loop, original_text, detected_lang_raw, tts_lang,
                    corrected_text, voice, response, correct_args, tts_args,
                    fault, piper_voices, loads, constructed,
                    unit_vars >>

\* Lines 182-186 and 68-72: the read is done, the loop resumes the coroutine,
\* which enters whisper_model.transcribe without yielding.
ReadReturn(r) ==
    /\ pc[r] = "Reading"
    /\ loop = Idle
    /\ loop' = {r}
    /\ pc' = [pc EXCEPT ![r] = "Transcribing"]
    /\ calls' = [calls EXCEPT ![r] = Append(@, "stt_with_whisper")]
    /\ UNCHANGED << original_text, detected_lang_raw, tts_lang,
                    corrected_text, voice, response, correct_args, tts_args,
                    fault, piper_voices, loads, constructed, cached_at_start,
                    unit_vars >>

\* "await audio.read()" raises.
ReadFault(r) ==
    /\ pc[r] = "Reading"
    /\ loop = Idle
    /\ Raise(r, "audio.read")
    /\ UNCHANGED << calls, correct_args, tts_args, piper_voices, loads,
                    constructed, cached_at_start, unit_vars >>

\* Lines 72-77, 186: transcribe returns; text is stripped, language defaults.
TranscribeReturn(r) ==
    /\ pc[r] = "Transcribing"
    /\ loop = {r}
    /\ \E result \in WhisperResults :
          /\ original_text' =
                [original_text EXCEPT ![r] = Strip(DictGet(result, "text", <<>>))]
          /\ detected_lang_raw' =
                [detected_lang_raw EXCEPT
                    ![r] = DictGet(result, "language", <<"e", "n">>)]
    /\ pc' = [pc EXCEPT ![r] = "Transcribed"]
    /\ UNCHANGED << loop, tts_lang, corrected_text, voice, response, calls,
                    correct_args, tts_args, fault, piper_voices, loads,
                    constructed, cached_at_start, unit_vars >>

\* The temp file write or whisper_model.transcribe raises.
TranscribeFault(r) ==
    /\ pc[r] = "Transcribing"
    /\ loop = {r}
    /\ Raise(r, "stt_with_whisper")
    /\ UNCHANGED << calls, correct_args, tts_args, piper_voices, loads,
                    constructed, cached_at_start, unit_vars >>

\* Lines 187-201: the language gate, and the text-only return when it is None.
Resolve(r) ==
    /\ pc[r] = "Transcribed"
    /\ loop = {r}
    /\ calls' = [calls EXCEPT ![r] = Append(@, "detect_lang_for_tts")]
    /\ LET lang == detect_lang_for_tts(detected_lang_raw[r]) IN
          IF lang = None
          THEN Return(r, "ShortCircuitText",
                      TextOnlyResponse(original_text[r], detected_lang_raw[r]))
          ELSE /\ tts_lang' = [tts_lang EXCEPT ![r] = lang]
               /\ pc' = [pc EXCEPT ![r] = "LanguageResolved"]
               /\ UNCHANGED << response, loop, original_text,
                               detected_lang_raw, corrected_text, voice >>
    /\ UNCHANGED << correct_args, tts_args, fault, piper_voices, loads,
                    constructed, cached_at_start, unit_vars >>

GrammarEngine_TrToEn(lang_key) ==
    CASE lang_key = "en" -> "lt_tool_en"
      [] lang_key = "de" -> "lt_tool_de"
      [] lang_key = "tr" -> "lt_tool_en"
      [] OTHER -> None

\* correct_grammar, lines 107-116: the LanguageTool instance used for a key.
GrammarEngine(lang_key) ==
    CASE lang_key = "en" -> "lt_tool_en"
      [] lang_key = "de" -> "lt_tool_de"
      [] OTHER -> None

\* What language_tool_python.utils.correct returns for a text: one of the
\* rewritten texts (the engine is opaque; its result is an input).
Corrections(text) == CorrectedTexts

\* Line 204 and lines 107-120: correct_grammar is called with the original
\* text and the key; with an engine it enters check(), without one it
\* returns the text unchanged.
Correct(r) ==
    /\ pc[r] = "LanguageResolved"
    /\ loop = {r}
    /\ correct_args' =
          [correct_args EXCEPT
              ![r] = [text |-> original_text[r], lang_key |-> tts_lang[r]]]
    /\ IF GrammarEngine(tts_lang[r]) # None
       THEN /\ calls' = [calls EXCEPT
                           ![r] = @ \o << "correct_grammar",
                                          GrammarEngine(tts_lang[r]) >>]
            /\ pc' = [pc EXCEPT ![r] = "Correcting"]
            /\ UNCHANGED corrected_text
       ELSE /\ calls' = [calls EXCEPT ![r] = Append(@, "correct_grammar")]
            /\ corrected_text' = [corrected_text EXCEPT ![r] = original_text[r]]
            /\ pc' = [pc EXCEPT ![r] = "Corrected"]
    /\ UNCHANGED << loop, original_text, detected_lang_raw, tts_lang, voice,
                    response, tts_args, fault, piper_voices, loads,
                    constructed, cached_at_start, unit_vars >>

\* Lines 108-111 / 113-116: check() and correct() return.
CorrectReturn(r) ==
    /\ pc[r] = "Correcting"
    /\ loop = {r}
    /\ \E corrected \in Corrections(correct_args[r].text) :
          corrected_text' = [corrected_text EXCEPT ![r] = corrected]
    /\ pc' = [pc EXCEPT ![r] = "Corrected"]
    /\ UNCHANGED << loop, original_text, detected_lang_raw, tts_lang, voice,
                    response, calls, correct_args, tts_args, fault,
                    piper_voices, loads, constructed, cached_at_start,
                    unit_vars >>

CorrectFault_Skip(r) ==
    /\ pc[r] = "Correcting"
    /\ loop = {r}
    /\ corrected_text' = [corrected_text EXCEPT ![r] = original_text[r]]
    /\ pc' = [pc EXCEPT ![r] = "Corrected"]
    /\ fault' = [fault EXCEPT ![r] = "correct_grammar"]
    /\ UNCHANGED << loop, original_text, detected_lang_raw, tts_lang, voice,
                    response, calls, correct_args, tts_args,
                    piper_voices, loads, constructed, cached_at_start,
                    unit_vars >>

\* The grammar engine raises: correct_grammar does not catch it.
CorrectFault(r) ==
    /\ pc[r] = "Correcting"
    /\ loop = {r}
    /\ Raise(r, "correct_grammar")
    /\ UNCHANGED << calls, correct_args, tts_args, piper_voices, loads,
                    constructed, cached_at_start, unit_vars >>

TtsCallArgs_Original(r) == [text |-> original_text[r], lang_key |-> tts_lang[r]]

TtsCallArgs_Shared(r) ==
    LET first == CHOOSE s \in Requests : \A t \in Requests : s <= t
    IN  [text |-> corrected_text[first], lang_key |-> tts_lang[r]]

\* Line 207: tts_with_piper(corrected_text, tts_lang)
TtsCallArgs(r) == [text |-> corrected_text[r], lang_key |-> tts_lang[r]]

\* Lines 207, 145 and 127-135: tts_with_piper is called with the corrected
\* text and the key, and calls get_piper_voice: a cached voice is returned,
\* otherwise PiperVoice.load is entered.
Synthesize(r) ==
    /\ pc[r] = "Corrected"
    /\ loop = {r}
    /\ tts_args' = [tts_args EXCEPT ![r] = TtsCallArgs(r)]
    /\ LET k == VoiceKey(tts_lang[r]) IN
          IF CacheHit(k)
          THEN /\ voice' = [voice EXCEPT ![r] = piper_voices[k]]
               /\ calls' = [calls EXCEPT
                              ![r] = @ \o << "tts_with_piper", "get_piper_voice",
                                             "synthesize_wav" >>]
               /\ pc' = [pc EXCEPT ![r] = "Rendering"]
               /\ UNCHANGED loads
          ELSE /\ loads' = [loads EXCEPT ![k] = @ + 1]
               /\ calls' = [calls EXCEPT
                              ![r] = @ \o << "tts_with_piper", "get_piper_voice",
                                             "PiperVoice.load" >>]
               /\ pc' = [pc EXCEPT ![r] = "Loading"]
               /\ UNCHANGED voice
    /\ UNCHANGED << loop, original_text, detected_lang_raw, tts_lang,
                    corrected_text, response, correct_args, fault,
                    piper_voices, constructed, cached_at_start,
                    unit_vars >>

\* Lines 135-138 and 147-152: the load returns a new voice, which is stored
\* and returned; tts_with_piper enters synthesize_wav.
LoadReturn(r) ==
    /\ pc[r] = "Loading"
    /\ loop = {r}
    /\ LET k == VoiceKey(tts_args[r].lang_key)
           v == NewVoice(k)
       IN  /\ constructed' = constructed \cup {v}
           /\ piper_voices' = CacheStore(k, v)
           /\ voice' = [voice EXCEPT ![r] = v]
    /\ calls' = [calls EXCEPT ![r] = Append(@, "synthesize_wav")]
    /\ pc' = [pc EXCEPT ![r] = "Rendering"]
    /\ UNCHANGED << loop, original_text, detected_lang_raw, tts_lang,
                    corrected_text, response, correct_args, tts_args, fault,
                    loads, cached_at_start, unit_vars >>

\* PiperVoice.load raises (missing or corrupt model file).
LoadFault(r) ==
    /\ pc[r] = "Loading"
    /\ loop = {r}
    /\ piper_voices' = CacheAfterFailedLoad(VoiceKey(tts_args[r].lang_key))
    /\ Raise(r, "PiperVoice.load")
    /\ UNCHANGED << calls, correct_args, tts_args, loads, constructed,
                    cached_at_start, unit_vars >>

\* Lines 152-157 and 209-222: the WAV is complete; headers and the audio
\* response are built and returned.
RenderReturn(r) ==
    /\ pc[r] = "Rendering"
    /\ loop = {r}
    /\ Return(r, "Synthesized",
              AudioResponse(WavBytes(tts_args[r].text, voice[r]),
                            tts_lang[r], corrected_text[r]))
    /\ UNCHANGED << calls, correct_args, tts_args, fault, piper_voices, loads,
                    constructed, cached_at_start, unit_vars >>

RenderFault_Evict(r) ==
    /\ pc[r] = "Rendering"
    /\ loop = {r}
    /\ Raise(r, "synthesize_wav")
    /\ piper_voices' =
          [x \in DOMAIN piper_voices \ {VoiceKey(tts_args[r].lang_key)} |->
              piper_voices[x]]
    /\ UNCHANGED << calls, correct_args, tts_args, loads, constructed,
                    cached_at_start, unit_vars >>

\* wave.open or synthesize_wav raises.
RenderFault(r) ==
    /\ pc[r] = "Rendering"
    /\ loop = {r}
    /\ Raise(r, "synthesize_wav")
    /\ UNCHANGED << calls, correct_args, tts_args, piper_voices, loads,
                    constructed, cached_at_start, unit_vars >>

\* One step of request r.
Step(r) ==
    \/ Begin(r)
    \/ ReadReturn(r)
    \/ ReadFault(r)
    \/ TranscribeReturn(r)
    \/ TranscribeFault(r)
    \/ Resolve(r)
    \/ Correct(r)
    \/ CorrectReturn(r)
    \/ CorrectFault(r)
    \/ Synthesize(r)
    \/ LoadReturn(r)
    \/ LoadFault(r)
    \/ RenderReturn(r)
    \/ RenderFault(r)

Next == \E r \in Requests : Step(r)

Spec == Init /\ [][Next]_vars

\* Every external call returns or raises, and the event loop runs a
\* coroutine whenever one is ready: some request steps while one can.
FairSpec == Spec /\ WF_vars(Next)

\* -------------------------------------------------- the language gate alone

GateInit ==
    /\ PipelineInit
    /\ CorrIdle
    /\ VcIdle
    /\ gate_in \in Codes
    /\ gate_out = "unset"

\* detect_lang_for_tts applied to the chosen code.
GateResolve ==
    /\ gate_out = "unset"
    /\ gate_out' = detect_lang_for_tts(gate_in)
    /\ UNCHANGED << gate_in, pipeline_vars, corr_vars, vc_vars >>

GateNext == GateResolve

SpecGate == GateInit /\ [][GateNext]_vars

\* ------------------------------------------------- correct_grammar alone

\* Code points of the enumerated texts: space, "i", line feed, "A-ring".
TextChars == {32, 105, 10, 197}

\* Every text of at most MaxTextLen characters.
Texts == UNION {[1..n -> TextChars] : n \in 0..MaxTextLen}

\* Values of lang_key: the three keys, None, and an unsupported code.
LangKeys == {"en", "de", "tr", None, "pt"}

CorrInit ==
    /\ PipelineInit
    /\ GateIdle
    /\ VcIdle
    /\ corr_in \in [text : Texts, lang_key : LangKeys]
    /\ corr_pc = "call"
    /\ corr_engine = None
    /\ corr_out = <<>>

\* Lines 107-120: with an engine for the key, check() is entered; otherwise
\* the text is returned unchanged.
CorrCall ==
    /\ corr_pc = "call"
    /\ IF GrammarEngine(corr_in.lang_key) # None
       THEN /\ corr_engine' = GrammarEngine(corr_in.lang_key)
            /\ corr_pc' = "check"
            /\ UNCHANGED corr_out
       ELSE /\ corr_out' = corr_in.text
            /\ corr_pc' = "done"
            /\ UNCHANGED corr_engine
    /\ UNCHANGED << corr_in, pipeline_vars, gate_vars, vc_vars >>

\* Lines 108-111 / 113-116: check() and correct() return the corrected text.
CorrCheckReturn ==
    /\ corr_pc = "check"
    /\ \E corrected \in Corrections(corr_in.text) : corr_out' = corrected
    /\ corr_pc' = "done"
    /\ UNCHANGED << corr_in, corr_engine, pipeline_vars, gate_vars, vc_vars >>

\* The engine raises: correct_grammar lets the exception through.
CorrCheckFault ==
    /\ corr_pc = "check"
    /\ corr_pc' = "raised"
    /\ UNCHANGED << corr_in, corr_engine, corr_out, pipeline_vars, gate_vars,
                    vc_vars >>

CorrNext == CorrCall \/ CorrCheckReturn \/ CorrCheckFault

SpecCorrector == CorrInit /\ [][CorrNext]_vars

\* ------------------------------------------------- get_piper_voice alone

VcInit ==
    /\ PipelineInit
    /\ GateIdle
    /\ CorrIdle
    /\ VcIdle

\* Lines 123-135: a call of get_piper_voice(lang_key); on a hit the cached
\* voice is returned, otherwise PiperVoice.load is entered.
VcCall ==
    /\ vc_pc \in {"idle", "done", "raised"}
    /\ vc_calls < MaxVoiceCalls
    /\ vc_calls' = vc_calls + 1
    /\ \E lang_key \in LangKeys :
          /\ vc_key' = lang_key
          /\ LET k == VoiceKey(lang_key) IN
                IF CacheHit(k)
                THEN /\ vc_out' = piper_voices[k]
                     /\ vc_pc' = "done"
                     /\ UNCHANGED loads
                ELSE /\ loads' = [loads EXCEPT ![k] = @ + 1]
                     /\ vc_out' = NoVoice
                     /\ vc_pc' = "loading"
    /\ UNCHANGED << piper_voices, constructed, request_vars, gate_vars,
                    corr_vars >>

\* Lines 135-138: the load returns; the voice is stored and returned.
VcLoadReturn ==
    /\ vc_pc = "loading"
    /\ LET k == VoiceKey(vc_key)
           v == NewVoice(k)
       IN  /\ constructed' = constructed \cup {v}
           /\ piper_voices' = CacheStore(k, v)
           /\ vc_out' = v
    /\ vc_pc' = "done"
    /\ UNCHANGED << vc_key, vc_calls, loads, request_vars, gate_vars,
                    corr_vars >>

\* PiperVoice.load raises: get_piper_voice lets the exception through.
VcLoadFault ==
    /\ vc_pc = "loading"
    /\ piper_voices' = CacheAfterFailedLoad(VoiceKey(vc_key))
    /\ vc_pc' = "raised"
    /\ UNCHANGED << vc_key, vc_out, vc_calls, loads, constructed,
                    request_vars, gate_vars, corr_vars >>

VcNext == VcCall \/ VcLoadReturn \/ VcLoadFault

SpecVoiceCache == VcInit /\ [][VcNext]_vars

\* ======================================================================
\* Properties
\* ======================================================================

\* The request has called fn.
Called(r, fn) == \E i \in 1..Len(calls[r]) : calls[r][i] = fn

\* stt_with_whisper has returned to request r.
HasTranscript(r) == pc[r] = "Transcribed" \/ Called(r, "detect_lang_for_tts")

\* The two letters of a supported language key.
KeyLetters(k) ==
    CASE k = "en" -> <<"e", "n">>
      [] k = "de" -> <<"d", "e">>
      [] k = "tr" -> <<"t", "r">>

\* code begins, case-insensitively, with the two letters of key k.
BeginsWith(code, k) ==
    /\ Len(code) >= 2
    /\ LowerChar(code[1]) = KeyLetters(k)[1]
    /\ LowerChar(code[2]) = KeyLetters(k)[2]

\* A non-empty code that begins with none of en, de, tr.
NonMatching(code) ==
    /\ code # <<>>
    /\ \A k \in {"en", "de", "tr"} : ~BeginsWith(code, k)

GrammarAndSynthesisCalls ==
    { "correct_grammar", "lt_tool_en", "lt_tool_de", "tts_with_piper",
      "get_piper_voice", "PiperVoice.load", "synthesize_wav" }

\* While request r runs with a non-matching raw language it has made no
\* grammar or synthesis call; a request that ended in ShortCircuitText has
\* made none either, and holds the text-only JSON of a non-matching code.
C1_State ==
    \A r \in Requests :
        /\ (HasTranscript(r) /\ NonMatching(detected_lang_raw[r])) =>
              /\ pc[r] = "Transcribed"
              /\ \A fn \in GrammarAndSynthesisCalls : ~Called(r, fn)
        /\ pc[r] = "ShortCircuitText" =>
              /\ \A fn \in GrammarAndSynthesisCalls : ~Called(r, fn)
              /\ correct_args[r] = NoArgs
              /\ tts_args[r] = NoArgs
              /\ response[r].status_code = 200
              /\ response[r].media_type = "application/json"
              /\ response[r].content.normalized_lang = None
              /\ response[r].content.tts_available = FALSE
              /\ NonMatching(response[r].content.detected_lang_raw)

\* The step a transcribed request with a non-matching raw language takes is
\* the text-only return, which leaves the voice cache alone.
C1_Step ==
    \A r \in Requests :
        (pc[r] = "Transcribed" /\ NonMatching(detected_lang_raw[r])
            /\ pc'[r] # pc[r]) =>
            /\ pc'[r] = "ShortCircuitText"
            /\ response'[r].status_code = 200
            /\ response'[r].content =
                  [original_text     |-> original_text[r],
                   detected_lang_raw |-> detected_lang_raw[r],
                   normalized_lang   |-> None,
                   tts_available     |-> FALSE]
            /\ piper_voices' = piper_voices
            /\ loads' = loads
            /\ constructed' = constructed

\* C1: a request whose transcribed raw language is non-empty and begins with
\* none of en, de, tr never calls the grammar corrector, the synthesis
\* service or the voice cache; its next and last step is the return of the
\* status-200 JSON carrying original_text, detected_lang_raw,
\* normalized_lang = null and tts_available = false.
C1_ShortCircuit == []C1_State /\ [][C1_Step]_vars

\* A request transcribed as "pt-BR" has returned the text-only response
\* while another request was synthesized.
C1_Witness ==
    \E r, s \in Requests :
        /\ pc[r] = "ShortCircuitText"
        /\ response[r].content.detected_lang_raw = <<"p", "t", "-", "B", "R">>
        /\ response[r].content.tts_available = FALSE
        /\ pc[s] = "Synthesized"

\* The calls a stage fault ends with: the call that raised.
RaisingCalls(stage) ==
    CASE stage = "correct_grammar" -> {"lt_tool_en", "lt_tool_de"}
      [] OTHER -> {stage}

\* C2: a fault at any stage (upload read, transcription, grammar correction,
\* voice construction, rendering) ends the request in Failed with status 500
\* and body {error: message of the fault}; the call that raised is the last
\* call the request makes; a request with a fault has no audio response, and
\* after a correction fault nothing is synthesized.
C2_FaultHandling ==
    \A r \in Requests :
        /\ pc[r] = "Failed" <=> fault[r] # ""
        /\ fault[r] # "" =>
              /\ pc[r] = "Failed"
              /\ response[r].status_code = 500
              /\ response[r].media_type = "application/json"
              /\ response[r].content = [error |-> FaultMessage(fault[r])]
              /\ calls[r] # <<>>
              /\ calls[r][Len(calls[r])] \in RaisingCalls(fault[r])
        /\ fault[r] = "correct_grammar" =>
              /\ tts_args[r] = NoArgs
              /\ ~Called(r, "tts_with_piper")
        /\ response[r].media_type = "audio/wav" => fault[r] = ""

\* One request failed in rendering with its voice loaded, another in grammar
\* correction.
C2_Witness ==
    \E r, s \in Requests :
        /\ fault[r] = "synthesize_wav"
        /\ Called(r, "PiperVoice.load")
        /\ response[r].status_code = 500
        /\ fault[s] = "correct_grammar"
        /\ pc[s] = "Failed"

\* C3: the language gate is defined for every code; the empty code gives the
\* default key en; a non-empty code gives en, de or tr exactly when it
\* begins, case-insensitively, with those two letters; at most one of the
\* three can match; every other non-empty code gives None, not the default.
C3_LanguageGate ==
    /\ gate_out = "unset" => ENABLED GateResolve
    /\ gate_out # "unset" =>
          /\ gate_out \in {"en", "de", "tr", None}
          /\ gate_in = <<>> => gate_out = "en"
          /\ gate_in # <<>> =>
                /\ \A k \in {"en", "de", "tr"} :
                      gate_out = k <=> BeginsWith(gate_in, k)
                /\ Cardinality({k \in {"en", "de", "tr"} : BeginsWith(gate_in, k)}) <= 1
                /\ NonMatching(gate_in) <=> gate_out = None
          /\ gate_in = <<"E", "N", "-", "u", "s">> => gate_out = "en"
          /\ gate_in = <<"d", "e", "u">> => gate_out = "de"
          /\ gate_in = <<"p", "t", "-", "B", "R">> => gate_out = None

\* The gate has mapped "EN-us" to en.
C3_Witness ==
    /\ gate_in = <<"E", "N", "-", "u", "s">>
    /\ gate_out = "en"

SupportedKeys == {"en", "de", "tr"}

\* The voices constructed for key k.
Built(k) == {v \in constructed : v.key = k}

\* The key request r asked the voice cache for.
CacheKeyOf(r) == VoiceKey(tts_args[r].lang_key)

\* The voice request r obtained from get_piper_voice, or NoVoice.
UsedVoice(r) ==
    IF pc[r] = "Synthesized" THEN response[r].content.voice ELSE voice[r]

\* C4: under every interleaving of the requests at most one voice is ever
\* constructed for a key, every request that obtained a voice for the key
\* obtained that one, and it is the one the cache holds.
C4_SingleFlight ==
    \A k \in SupportedKeys :
        /\ Cardinality(Built(k)) <= 1
        /\ \A r \in Requests :
              (UsedVoice(r) # NoVoice /\ CacheKeyOf(r) = k) =>
                  /\ Built(k) = {UsedVoice(r)}
                  /\ k \in DOMAIN piper_voices
                  /\ piper_voices[k] = UsedVoice(r)

\* Two requests that both started while no voice was cached were synthesized
\* for en with the same voice, after one load.
C4_Witness ==
    \E r, s \in Requests :
        /\ r # s
        /\ pc[r] = "Synthesized" /\ pc[s] = "Synthesized"
        /\ cached_at_start[r] = {} /\ cached_at_start[s] = {}
        /\ CacheKeyOf(r) = "en" /\ CacheKeyOf(s) = "en"
        /\ UsedVoice(r) = UsedVoice(s)
        /\ loads["en"] = 1

\* C5: while one request is inside a blocking engine call, every other
\* request that has not returned can take a step of its own.
C5_NonBlocking ==
    \A r, s \in Requests :
        (r # s /\ pc[r] \in BlockingCalls /\ pc[s] \notin Terminal) =>
            ENABLED Step(s)

\* The requests whose load of key k raised.
FailedLoads(k) ==
    {r \in Requests : fault[r] = "PiperVoice.load" /\ CacheKeyOf(r) = k}

\* The requests inside PiperVoice.load for key k.
Loading(k) == {r \in Requests : pc[r] = "Loading" /\ CacheKeyOf(r) = k}

\* C6 as stated: PiperVoice.load is called at most once per key, and exactly
\* once for a key get_piper_voice has been called for.
C6_LoadExactlyOnce ==
    \A k \in SupportedKeys :
        /\ loads[k] <= 1
        /\ (\E r \in Requests :
               Called(r, "get_piper_voice") /\ CacheKeyOf(r) = k) => loads[k] = 1

\* C6, amended: the load of a key succeeds at most once, and exactly once
\* when some call for the key has returned a voice; no load runs while the
\* key is cached; every other load call is one that raised.
C6_LoadSucceedsOnce ==
    \A k \in SupportedKeys :
        /\ Cardinality(Built(k)) <= 1
        /\ loads[k] =
              Cardinality(Built(k)) + Cardinality(Loading(k))
                  + Cardinality(FailedLoads(k))
        /\ Loading(k) # {} => k \notin DOMAIN piper_voices
        /\ k \in DOMAIN piper_voices <=> Cardinality(Built(k)) = 1
        /\ (\E r \in Requests : UsedVoice(r) # NoVoice /\ CacheKeyOf(r) = k)
              => Cardinality(Built(k)) = 1

\* The load of en raised for one request and succeeded for the next one,
\* which was synthesized.
C6_Witness ==
    \E r, s \in Requests :
        /\ fault[r] = "PiperVoice.load" /\ CacheKeyOf(r) = "en"
        /\ pc[s] = "Synthesized" /\ CacheKeyOf(s) = "en"
        /\ loads["en"] = 2
        /\ Cardinality(Built("en")) = 1

\* An entry of the cache stays, with the same voice; a call for a cached key
\* returns that voice without a load.
C7_Step ==
    /\ \A k \in DOMAIN piper_voices :
          /\ k \in DOMAIN piper_voices'
          /\ piper_voices'[k] = piper_voices[k]
    /\ \A r \in Requests :
          (pc[r] = "Corrected" /\ pc'[r] # "Corrected"
              /\ VoiceKey(tts_lang[r]) \in DOMAIN piper_voices) =>
              /\ pc'[r] = "Rendering"
              /\ voice'[r] = piper_voices[VoiceKey(tts_lang[r])]
              /\ loads' = loads
              /\ constructed' = constructed

\* C7: once the cache holds a voice for a key, every later state maps the
\* key to that voice and every later get_piper_voice call for the key
\* returns it; no entry is evicted, reloaded or replaced.
C7_HandleStability == [][C7_Step]_vars

\* A second request obtained, without loading, the cached voice an earlier
\* request was synthesized with.
C7_Witness ==
    \E r, s \in Requests :
        /\ r # s
        /\ pc[r] = "Synthesized"
        /\ pc[s] = "Rendering"
        /\ ~Called(s, "PiperVoice.load")
        /\ voice[s] = response[r].content.voice
        /\ piper_voices[CacheKeyOf(s)] = voice[s]

\* A load that raises leaves the cache as it was and fails the request with
\* the load's message; a call for a key whose load raised, and for which no
\* load has succeeded, enters PiperVoice.load again.
C8_Step ==
    \A r \in Requests :
        /\ (pc[r] = "Loading" /\ pc'[r] # "Loading" /\ pc'[r] # "Rendering") =>
              /\ pc'[r] = "Failed"
              /\ piper_voices' = piper_voices
              /\ constructed' = constructed
              /\ fault'[r] = "PiperVoice.load"
              /\ response'[r].status_code = 500
              /\ response'[r].content = [error |-> FaultMessage("PiperVoice.load")]
        /\ (pc[r] = "Corrected" /\ pc'[r] # "Corrected"
              /\ FailedLoads(VoiceKey(tts_lang[r])) # {}
              /\ Built(VoiceKey(tts_lang[r])) = {}) =>
              /\ pc'[r] = "Loading"
              /\ loads'[VoiceKey(tts_lang[r])] = loads[VoiceKey(tts_lang[r])] + 1

\* C8: a failed load propagates to the caller, stores nothing in the cache,
\* and the next get_piper_voice call for the key loads again.
C8_NoNegativeCaching == [][C8_Step]_vars

\* After the load of en raised for one request, the next request for en is
\* inside PiperVoice.load, with nothing cached.
C8_Witness ==
    \E r, s \in Requests :
        /\ fault[s] = "PiperVoice.load" /\ CacheKeyOf(s) = "en"
        /\ pc[r] = "Loading" /\ CacheKeyOf(r) = "en"
        /\ loads["en"] = 2
        /\ "en" \notin DOMAIN piper_voices

\* The pipeline stages in the order of the full path.
FullPath ==
    << "stt_with_whisper", "detect_lang_for_tts", "correct_grammar",
       "tts_with_piper" >>

IsStage(fn) == \E i \in 1..Len(FullPath) : FullPath[i] = fn

\* The stage calls request r has made, in order.
StageCalls(r) == SelectSeq(calls[r], IsStage)

\* Raw code c resolves to the concrete key k.
ResolvesTo(c, k) == (c = <<>> /\ k = "en") \/ BeginsWith(c, k)

\* C9: a request makes its stage calls once each and in the order
\* transcription, language resolution, grammar correction, synthesis; with
\* the language resolved to key k the corrector is called with the original
\* text and k, synthesis with the corrector's result and k, and the
\* response of the synthesized request is the 200 audio/wav rendered from
\* that text, with X-Detected-Lang = k and X-Corrected-Text, when present,
\* equal to the corrected text.
C9_FullPath ==
    \A r \in Requests :
        /\ Len(StageCalls(r)) <= Len(FullPath)
        /\ StageCalls(r) = SubSeq(FullPath, 1, Len(StageCalls(r)))
        /\ pc[r] \in {"LanguageResolved", "Correcting", "Corrected",
                      "Loading", "Rendering"} =>
              /\ tts_lang[r] \in SupportedKeys
              /\ ResolvesTo(detected_lang_raw[r], tts_lang[r])
        /\ pc[r] \in {"Correcting", "Corrected", "Loading", "Rendering"} =>
              correct_args[r] =
                  [text |-> original_text[r], lang_key |-> tts_lang[r]]
        /\ pc[r] = "Corrected" =>
              IF GrammarEngine(tts_lang[r]) = None
              THEN corrected_text[r] = original_text[r]
              ELSE corrected_text[r] \in Corrections(original_text[r])
        /\ pc[r] \in {"Loading", "Rendering"} =>
              tts_args[r] =
                  [text |-> corrected_text[r], lang_key |-> tts_lang[r]]
        /\ pc[r] = "Synthesized" =>
              /\ StageCalls(r) = FullPath
              /\ tts_args[r].lang_key = correct_args[r].lang_key
              /\ response[r].status_code = 200
              /\ response[r].media_type = "audio/wav"
              /\ response[r].content.text = tts_args[r].text
              /\ response[r].headers["X-Detected-Lang"] = tts_args[r].lang_key
              /\ "X-Corrected-Text" \in DOMAIN response[r].headers =>
                    response[r].headers["X-Corrected-Text"] = tts_args[r].text

\* A request transcribed as "EN-us" was synthesized from a corrected text
\* that differs from its original text and is carried in X-Corrected-Text.
C9_Witness ==
    \E r \in Requests :
        /\ pc[r] = "Synthesized"
        /\ correct_args[r].lang_key = "en"
        /\ tts_args[r].text # correct_args[r].text
        /\ response[r].headers["X-Detected-Lang"] = "en"
        /\ "X-Corrected-Text" \in DOMAIN response[r].headers
        /\ response[r].headers["X-Corrected-Text"] = <<73>>

\* Every character is printable ASCII (space to tilde).
IsPrintableAscii(t) == \A i \in 1..Len(t) : t[i] >= 32 /\ t[i] <= 126

\* C10: the audio response carries X-Corrected-Text only if the corrected
\* text is printable ASCII.
C10_PrintableAsciiOnly ==
    \A r \in Requests :
        (pc[r] = "Synthesized"
            /\ "X-Corrected-Text" \in DOMAIN response[r].headers) =>
            IsPrintableAscii(tts_args[r].text)

\* C11: a request whose correction and synthesis succeeded with a corrected
\* text that is not ASCII has ended in Synthesized, not in Failed: status
\* 200, audio/wav, the WAV rendered from that text, X-Detected-Lang set and
\* X-Corrected-Text absent.
C11_OmissionNeverFails ==
    \A r \in Requests :
        /\ (pc[r] \in Terminal /\ Called(r, "synthesize_wav")
               /\ fault[r] # "synthesize_wav") =>
              /\ pc[r] = "Synthesized"
              /\ fault[r] = ""
        /\ (pc[r] = "Synthesized" /\ ~IsAscii(tts_args[r].text)) =>
              /\ response[r].status_code = 200
              /\ response[r].media_type = "audio/wav"
              /\ response[r].content.text = tts_args[r].text
              /\ DOMAIN response[r].headers = {"X-Detected-Lang"}
              /\ response[r].headers["X-Detected-Lang"] = tts_args[r].lang_key

\* A request was synthesized from the corrected text "U-umlaut" and its
\* response carries X-Detected-Lang alone.
C11_Witness ==
    \E r \in Requests :
        /\ pc[r] = "Synthesized"
        /\ tts_args[r].text = <<220>>
        /\ response[r].status_code = 200
        /\ DOMAIN response[r].headers = {"X-Detected-Lang"}

\* C12: correct_grammar(t, None) = t and correct_grammar(t, "tr") = t for
\* every text t, and neither call enters or fails in a grammar engine; an
\* engine is invoked only for en and de: lt_tool_en for en, lt_tool_de for de.
C12_IdentityLaw ==
    /\ corr_in.lang_key \in {None, "tr"} =>
          /\ corr_pc \in {"call", "done"}
          /\ corr_engine = None
          /\ corr_pc = "call" => ENABLED CorrCall
          /\ corr_pc = "done" => corr_out = corr_in.text
    /\ corr_engine # None =>
          \/ corr_in.lang_key = "en" /\ corr_engine = "lt_tool_en"
          \/ corr_in.lang_key = "de" /\ corr_engine = "lt_tool_de"
    /\ (corr_in.lang_key \in {"en", "de"} /\ corr_pc # "call") =>
          corr_engine # None

\* correct_grammar has returned the text "A-ring i" unchanged for tr.
C12_Witness ==
    /\ corr_pc = "done"
    /\ corr_in = [text |-> <<197, 105>>, lang_key |-> "tr"]
    /\ corr_out = <<197, 105>>
    /\ corr_engine = None

\* The key a call with the default key would use.
C13_DefaultKey == "en"

\* What get_piper_voice("en") does from the current state, told of a step
\* that made a call.
C13_AsDefaultCall ==
    IF C13_DefaultKey \in DOMAIN piper_voices
    THEN /\ vc_pc' = "done"
         /\ vc_out' = piper_voices[C13_DefaultKey]
         /\ UNCHANGED << piper_voices, loads, constructed >>
    ELSE /\ vc_pc' = "loading"
         /\ loads' = [loads EXCEPT ![C13_DefaultKey] = @ + 1]
         /\ UNCHANGED << piper_voices, constructed >>

\* What the completion of get_piper_voice("en") does.
C13_AsDefaultLoad ==
    \/ /\ vc_pc' = "raised"
       /\ UNCHANGED << piper_voices, loads, constructed >>
    \/ /\ vc_pc' = "done"
       /\ vc_out'.key = C13_DefaultKey
       /\ vc_out' \notin constructed
       /\ constructed' = constructed \cup {vc_out'}
       /\ DOMAIN piper_voices' = DOMAIN piper_voices \cup {C13_DefaultKey}
       /\ piper_voices'[C13_DefaultKey] = vc_out'
       /\ \A x \in DOMAIN piper_voices \ {C13_DefaultKey} :
             piper_voices'[x] = piper_voices[x]
       /\ UNCHANGED loads

C13_Step ==
    /\ (vc_calls' # vc_calls /\ vc_key' \notin SupportedKeys) =>
          C13_AsDefaultCall
    /\ (vc_pc = "loading" /\ vc_pc' # "loading"
           /\ vc_key \notin SupportedKeys) => C13_AsDefaultLoad

C13_State ==
    /\ DOMAIN piper_voices \subseteq SupportedKeys
    /\ \A k \in DOMAIN piper_voices : piper_voices[k].key = k
    /\ (vc_pc = "done" /\ vc_key \notin SupportedKeys) =>
          /\ C13_DefaultKey \in DOMAIN piper_voices
          /\ vc_out = piper_voices[C13_DefaultKey]

\* C13: get_piper_voice called with a key outside {en, de, tr} does what a
\* call with en does: it returns the cached en voice, or loads one, stores it
\* under en and returns it; the keys of the voice cache are always among
\* en, de, tr.
C13_DefaultSubstitution == []C13_State /\ [][C13_Step]_vars

\* The first call, with the unconfigured key "pt", has loaded and stored the
\* en voice and returned it.
C13_Witness ==
    /\ vc_key = "pt"
    /\ vc_pc = "done"
    /\ vc_calls = 1
    /\ loads = [k \in DOMAIN PIPER_MODELS |-> IF k = "en" THEN 1 ELSE 0]
    /\ DOMAIN piper_voices = {"en"}
    /\ vc_out = piper_voices["en"]
    /\ vc_out.key = "en"

\* The raw language of a transcription without a detected language: the
\* empty string, or the "en" stt_with_whisper puts in place of a missing one.
EmptyOrMissing == { <<>>, <<"e", "n">> }

\* The states of a request between language resolution and its response.
AfterGate ==
    {"LanguageResolved", "Correcting", "Corrected", "Loading", "Rendering"}

C14_State ==
    \A r \in Requests :
        /\ pc[r] = "ShortCircuitText" =>
              NonMatching(response[r].content.detected_lang_raw)
        /\ pc[r] \in AfterGate =>
              /\ ~NonMatching(detected_lang_raw[r])
              /\ detected_lang_raw[r] \in EmptyOrMissing =>
                    /\ tts_lang[r] = "en"
                    /\ Called(r, "correct_grammar") =>
                          correct_args[r].lang_key = "en"
                    /\ Called(r, "tts_with_piper") =>
                          tts_args[r].lang_key = "en"

C14_Step ==
    \A r \in Requests :
        (pc[r] = "Transcribed" /\ pc'[r] # "Transcribed") =>
            /\ detected_lang_raw[r] \in EmptyOrMissing =>
                  /\ pc'[r] = "LanguageResolved"
                  /\ tts_lang'[r] = "en"
            /\ NonMatching(detected_lang_raw[r]) =>
                  /\ pc'[r] = "ShortCircuitText"
                  /\ response'[r].content.detected_lang_raw =
                        detected_lang_raw[r]

\* C14: a request whose transcription has an empty or missing language never
\* ends in ShortCircuitText: the gate resolves it to en and grammar
\* correction and synthesis are called with en; a request whose language is
\* non-empty and begins with none of en, de, tr goes from the gate to
\* ShortCircuitText and no further.
C14_EmptyDetection == []C14_State /\ [][C14_Step]_vars

\* A request with the empty language is rendering speech under en, after
\* another with "pt-BR" ended in ShortCircuitText.
C14_Witness ==
    \E r, s \in Requests :
        /\ pc[r] = "Rendering"
        /\ detected_lang_raw[r] = <<>>
        /\ correct_args[r].lang_key = "en"
        /\ tts_args[r].lang_key = "en"
        /\ pc[s] = "ShortCircuitText"
        /\ response[s].content.detected_lang_raw = <<"p", "t", "-", "B", "R">>

\* C15: while one request constructs the voice of its key inside
\* PiperVoice.load, a request that has not yet reached the voice cache can
\* go on towards the construction of its own voice.
C15_IndependentConstruction ==
    \A r, s \in Requests :
        (r # s /\ pc[r] = "Loading" /\ pc[s] \in {"Received", "Reading"}) =>
            ENABLED Step(s)

\* The response of request r has the shape of its terminal state.
MatchingShape(r) ==
    CASE pc[r] = "ShortCircuitText" ->
            /\ response[r].status_code = 200
            /\ response[r].media_type = "application/json"
            /\ DOMAIN response[r].content =
                  {"original_text", "detected_lang_raw", "normalized_lang",
                   "tts_available"}
      [] pc[r] = "Synthesized" ->
            /\ response[r].status_code = 200
            /\ response[r].media_type = "audio/wav"
      [] pc[r] = "Failed" ->
            /\ response[r].status_code = 500
            /\ response[r].media_type = "application/json"
            /\ DOMAIN response[r].content = {"error"}
      [] OTHER -> FALSE

\* A response exists exactly for the requests in a terminal state, and has
\* the shape of that state; such a request has no step left.
C16_State ==
    \A r \in Requests :
        IF pc[r] \in Terminal
        THEN response[r] # NoResponse /\ MatchingShape(r) /\ ~ENABLED Step(r)
        ELSE response[r] = NoResponse

\* A request in a terminal state stays in it: no step changes its state, its
\* response or its calls.
C16_Step ==
    \A r \in Requests :
        pc[r] \in Terminal =>
            /\ pc'[r] = pc[r]
            /\ response'[r] = response[r]
            /\ calls'[r] = calls[r]

\* C16: when every external call returns or raises, every request reaches
\* one of ShortCircuitText, Synthesized, Failed, has from then on exactly the
\* one response of that state's shape (200 JSON, 200 audio/wav, 500 JSON),
\* and takes no further step.
C16_Termination ==
    /\ <>(\A r \in Requests : pc[r] \in Terminal)
    /\ []C16_State
    /\ [][C16_Step]_vars

\* Every request has ended, and the three terminal states are not all the
\* same one.
C16_Witness ==
    /\ \A r \in Requests : pc[r] \in Terminal /\ response[r] # NoResponse
    /\ \E r, s \in Requests : pc[r] = "Failed" /\ pc[s] = "Synthesized"

\* The requests that failed in rendering with the voice of key k.
FailedRenders(k) ==
    {s \in Requests : fault[s] = "synthesize_wav" /\ CacheKeyOf(s) = k}

\* The step adds to the cache the entry of the key request r resolved to,
\* and changes no other entry.
AddsOwnEntry(r) ==
    /\ pc[r] = "Loading"
    /\ pc'[r] = "Rendering"
    /\ tts_lang[r] \in SupportedKeys
    /\ tts_lang[r] \notin DOMAIN piper_voices
    /\ DOMAIN piper_voices' = DOMAIN piper_voices \cup {tts_lang[r]}
    /\ piper_voices'[tts_lang[r]] = voice'[r]
    /\ \A k \in DOMAIN piper_voices : piper_voices'[k] = piper_voices[k]

C17_Step ==
    /\ piper_voices' # piper_voices => \E r \in Requests : AddsOwnEntry(r)
    /\ \A r \in Requests :
          /\ (pc[r] = "Rendering" /\ pc'[r] = "Failed") =>
                /\ piper_voices' = piper_voices
                /\ VoiceKey(tts_args[r].lang_key) \in DOMAIN piper_voices'
                /\ piper_voices'[VoiceKey(tts_args[r].lang_key)] = voice[r]
          /\ (pc[r] = "Corrected" /\ pc'[r] # "Corrected"
                 /\ FailedRenders(VoiceKey(tts_lang[r])) # {}) =>
                /\ pc'[r] = "Rendering"
                /\ voice'[r] = piper_voices[VoiceKey(tts_lang[r])]
                /\ loads' = loads
                /\ constructed' = constructed

C17_State ==
    \A k \in SupportedKeys :
        FailedRenders(k) # {} => (k \in DOMAIN piper_voices /\ loads[k] >= 1)

\* C17: a step of a request changes the voice cache only by adding the entry
\* of the request's own resolved key, leaving every other entry as it was;
\* a request that fails in rendering leaves the cache, with the voice it
\* used, unchanged, and a later request for that key gets the cached voice
\* without a load.
C17_CacheFrame == []C17_State /\ [][C17_Step]_vars

\* After a request for de failed in rendering, a later request for de is
\* rendering with the cached voice; de was loaded once.
C17_Witness ==
    \E r, s \in Requests :
        /\ r # s
        /\ fault[s] = "synthesize_wav" /\ CacheKeyOf(s) = "de"
        /\ "de" \notin cached_at_start[s]
        /\ pc[r] = "Rendering" /\ CacheKeyOf(r) = "de"
        /\ ~Called(r, "PiperVoice.load")
        /\ voice[r] = piper_voices["de"]
        /\ loads["de"] = 1

\* The data of request r: the locals of its coroutine, the arguments of its
\* stage calls, its calls, its fault and its response.
OwnData(r) ==
    << original_text[r], detected_lang_raw[r], tts_lang[r], corrected_text[r],
       voice[r], response[r], calls[r], correct_args[r], tts_args[r],
       fault[r], cached_at_start[r] >>

\* What a step of request r writes comes from r's own data.
FromOwnData(r) ==
    /\ pc'[r] = "ShortCircuitText" =>
          /\ response'[r].content.original_text = original_text[r]
          /\ response'[r].content.detected_lang_raw = detected_lang_raw[r]
    /\ pc'[r] = "LanguageResolved" =>
          tts_lang'[r] = detect_lang_for_tts(detected_lang_raw[r])
    /\ pc[r] = "LanguageResolved" =>
          correct_args'[r] =
             [text |-> original_text[r], lang_key |-> tts_lang[r]]
    /\ (pc[r] = "LanguageResolved" /\ pc'[r] = "Corrected") =>
          corrected_text'[r] = original_text[r]
    /\ pc[r] = "Corrected" =>
          /\ tts_args'[r] =
                [text |-> corrected_text[r], lang_key |-> tts_lang[r]]
          /\ pc'[r] = "Rendering" => voice'[r].key = tts_lang[r]
    /\ (pc[r] = "Loading" /\ pc'[r] = "Rendering") =>
          voice'[r].key = tts_lang[r]
    /\ pc'[r] = "Synthesized" =>
          /\ response'[r].headers["X-Detected-Lang"] = tts_lang[r]
          /\ "X-Corrected-Text" \in DOMAIN response'[r].headers =>
                response'[r].headers["X-Corrected-Text"] = corrected_text[r]
          /\ response'[r].content.text = corrected_text[r]
          /\ response'[r].content.voice.key = tts_lang[r]
    /\ pc'[r] = "Failed" =>
          response'[r] = ErrorResponse(FaultMessage(fault'[r]))

C18_Step ==
    /\ \A r, s \in Requests : (pc'[r] # pc[r] /\ pc'[s] # pc[s]) => r = s
    /\ \A r \in Requests :
          IF pc'[r] = pc[r]
          THEN OwnData(r)' = OwnData(r)
          ELSE FromOwnData(r)
    /\ UNCHANGED unit_vars

\* C18: under every interleaving, a step of one request leaves the data and
\* the response of every other request unchanged, and what it writes for its
\* own request (texts, language, call arguments, headers, audio) is computed
\* from that request's own data; a voice taken from the shared cache is the
\* one of the request's own key.
C18_RequestIsolation == [][C18_Step]_vars

\* Two en requests synthesized with the one cached voice, the second
\* without a load, each with its own text.
C18_Witness ==
    \E r, s \in Requests :
        /\ r # s
        /\ pc[r] = "Synthesized" /\ pc[s] = "Synthesized"
        /\ ~Called(s, "PiperVoice.load")
        /\ response[s].content.voice = response[r].content.voice
        /\ response[r].content.text = <<73>>
        /\ response[s].content.text = <<220>>
        /\ response[r].headers["X-Detected-Lang"] = "en"
        /\ response[s].headers["X-Detected-Lang"] = "en"

====
